---- MODULE Spec2Model ----
(***************************************************************************)
(* A model of pysheds/serializer.py: the JSON + NumPy archive codec for    *)
(* sGrid, Raster and MultiRaster objects.                                  *)
(*                                                                         *)
(* Storage is a partial map from path strings to entries.  Every handler   *)
(* of PyshedsSerializer is translated statement by statement; a save is a  *)
(* script of storage steps (mkdir, file writes) that stops at the first    *)
(* step that raises, a load is a function of the storage it reads.         *)
(***************************************************************************)
EXTENDS Integers, Sequences, FiniteSets, TLC

VARIABLES
    fs,     \* storage: path -> entry (directory, JSON file, npz blob, other)
    last,   \* the most recent call: operation, arguments, outcome
    run     \* concurrent callers: the script each one is executing

vars == <<fs, last, run>>

(***************************************************************************)
(* Bounds of the model.                                                    *)
(***************************************************************************)
MaxSide == 2        \* array sides range over 1..MaxSide
MaxSteps == 3       \* a sequential run is at most this many calls and foreign writes

----------------------------------------------------------------------------
(***************************************************************************)
(* Numbers.  A finite number is a sign and the set of positions of the 1   *)
(* bits of its magnitude (position 0 is the units bit, negative positions  *)
(* are fractional bits), so that 64-bit integers and IEEE doubles keep     *)
(* their real widths.  A scalar carries the name of its numeric type.      *)
(***************************************************************************)
Num(ty, neg, bits) == [ty |-> ty, nan |-> FALSE, neg |-> neg, bits |-> bits]
NaN(ty) == [ty |-> ty, nan |-> TRUE, neg |-> FALSE, bits |-> {}]

MaxOf(S) == CHOOSE m \in S : \A k \in S : k <= m

\* Round a magnitude to p significant bits, ties to even (IEEE 754).
RoundSig(bits, p) ==
    IF bits = {} THEN {}
    ELSE LET hi == MaxOf(bits)
             cut == hi - (p - 1)
             kept == {i \in bits : i >= cut}
             half == (cut - 1) \in bits
             sticky == \E i \in bits : i < cut - 1
             up == half /\ (sticky \/ cut \in bits)
             j == CHOOSE k \in cut..(hi + 1) :
                     k \notin kept /\ \A m \in cut..(k - 1) : m \in kept
         IN  IF up THEN {i \in kept : i > j} \cup {j} ELSE kept

SameValue(x, y) == x.nan = y.nan /\ x.neg = y.neg /\ x.bits = y.bits

isnan(x) == x.nan

\* float(x): the Python float (an IEEE double) nearest to x.
pyfloat(x) == Num("float", x.neg, RoundSig(x.bits, 53))

\* np.float32(x), np.float64(x) applied to a Python float.
npfloat32(x) == Num("float32", x.neg, RoundSig(x.bits, 24))
npfloat64(x) == Num("float64", x.neg, x.bits)

\* np.int16(x), np.int32(x), np.int64(x) applied to a Python float: the
\* fraction is dropped; a value outside the type's range comes out as the
\* type's minimum (the result of the C conversion on x86-64).
npint(ty, w, x) ==
    LET whole == {i \in x.bits : i >= 0}
        fits == \/ whole = {}
                \/ MaxOf(whole) < w - 1
                \/ (x.neg /\ whole = {w - 1})
    IN  IF fits THEN Num(ty, x.neg /\ whole # {}, whole)
        ELSE Num(ty, TRUE, {w - 1})

\* np.issubdtype(np.dtype(name), np.floating) and (..., np.integer).
FloatingDtypes == {"float16", "float32", "float64"}
IntegerDtypes == {"int8", "int16", "int32", "int64", "uint8", "uint16"}
issubdtype_floating(name) == name \in FloatingDtypes
issubdtype_integer(name) == name \in IntegerDtypes

----------------------------------------------------------------------------
(***************************************************************************)
(* JSON.  json.dump turns a Python value into text and json.load turns the *)
(* text back into a Python value; the text has its own vocabulary (number, *)
(* string, array, object) and carries no Python type.                      *)
(***************************************************************************)
PyInt(n) == [t |-> "int", v |-> n]
PyStr(s) == [t |-> "str", v |-> s]
PyList(items) == [t |-> "list", v |-> items]
PyTuple(items) == [t |-> "tuple", v |-> items]
PyDict(pairs) == [t |-> "dict", v |-> pairs]     \* <<key, value>> pairs, in order
PyOpaque == [t |-> "object", v |-> <<>>]         \* a value json cannot encode

RECURSIVE serializable(_)
serializable(x) ==
    CASE x.t \in {"int", "str"} -> TRUE
      [] x.t \in {"list", "tuple"} -> \A i \in 1..Len(x.v) : serializable(x.v[i])
      [] x.t = "dict" -> \A i \in 1..Len(x.v) : serializable(x.v[i][2])
      [] OTHER -> FALSE

RECURSIVE json_encode(_)
json_encode(x) ==
    CASE x.t = "int" -> [j |-> "number", v |-> x.v]
      [] x.t = "str" -> [j |-> "string", v |-> x.v]
      [] x.t \in {"list", "tuple"} ->
            [j |-> "array", v |-> [i \in 1..Len(x.v) |-> json_encode(x.v[i])]]
      [] x.t = "dict" ->
            [j |-> "object",
             v |-> [i \in 1..Len(x.v) |-> <<x.v[i][1], json_encode(x.v[i][2])>>]]

RECURSIVE json_decode(_)
json_decode(d) ==
    CASE d.j = "number" -> PyInt(d.v)
      [] d.j = "string" -> PyStr(d.v)
      [] d.j = "array" -> PyList([i \in 1..Len(d.v) |-> json_decode(d.v[i])])
      [] d.j = "object" ->
            PyDict([i \in 1..Len(d.v) |-> <<d.v[i][1], json_decode(d.v[i][2])>>])

\* The nodata field: float(vf.nodata) if not np.isnan(vf.nodata) else 'nan',
\* written by json.dump as a number or as the string "nan".
nodata_field(nodata) ==
    IF ~isnan(nodata)
    THEN LET f == pyfloat(nodata)
         IN  [j |-> "number", neg |-> f.neg, bits |-> f.bits]
    ELSE [j |-> "string", v |-> "nan"]

is_nan_marker(field) == field.j = "string" /\ field.v = "nan"

\* json.load gives a Python float for a number written from a float.
json_number(field) == Num("float", field.neg, field.bits)

----------------------------------------------------------------------------
(***************************************************************************)
(* The collaborators of the serializer: arrays, the affine transform, the  *)
(* coordinate reference system, the ViewFinder and the three entity kinds. *)
(***************************************************************************)
Array(shape, dtype, fill) == [shape |-> shape, dtype |-> dtype, fill |-> fill]

\* list(vf.affine) and Affine(*coefficients)
affine_list(a) == <<a.a, a.b, a.c, a.d, a.e, a.f>>
Affine(l) == [a |-> l[1], b |-> l[2], c |-> l[3], d |-> l[4], e |-> l[5], f |-> l[6]]

\* str(vf.crs) and projection.to_proj(text)
crs_str(crs) == crs.srs
to_proj(text) == [srs |-> text]

None == [cls |-> "None"]
Raised(err) == [err |-> err, ret |-> None]
Returned(value) == [err |-> "none", ret |-> value]

\* ViewFinder(affine=, shape=, nodata=, mask=, crs=): the mask must have the
\* shape of the grid.
ViewFinder(affine, shape, nodata, mask, crs) ==
    IF mask.shape # shape THEN Raised("ValueError")
    ELSE Returned([affine |-> affine, shape |-> shape, nodata |-> nodata,
                   mask |-> mask, crs |-> crs])

sGrid(viewfinder) == [cls |-> "sGrid", viewfinder |-> viewfinder]
Raster(data, viewfinder, metadata) ==
    [cls |-> "Raster", data |-> data, viewfinder |-> viewfinder, metadata |-> metadata]
MultiRaster(data, viewfinder, metadata) ==
    [cls |-> "MultiRaster", data |-> data, viewfinder |-> viewfinder,
     metadata |-> metadata]

isinstance_sGrid(obj) == obj.cls = "sGrid"
isinstance_MultiRaster(obj) == obj.cls = "MultiRaster"
isinstance_Raster_or_MultiRaster(obj) == obj.cls \in {"Raster", "MultiRaster"}

----------------------------------------------------------------------------
(***************************************************************************)
(* Storage.  An entry is a directory, a JSON file (whole, or cut short by  *)
(* a write that raised), an npz blob holding one named array, or a file    *)
(* that is none of these.                                                  *)
(***************************************************************************)
Dir == [t |-> "dir"]
OtherFile == [t |-> "file"]
JsonFile(doc) == [t |-> "json", whole |-> TRUE, doc |-> doc]
CutJsonFile == [t |-> "json", whole |-> FALSE, doc |-> <<>>]
NpzFile(key, arr) == [t |-> "npz", whole |-> TRUE, key |-> key, arr |-> arr]

Put(f, p, e) == [q \in DOMAIN f \cup {p} |-> IF q = p THEN e ELSE f[q]]

\* Path(p).mkdir(parents=True, exist_ok=True)
mkdir(f, p) ==
    IF p \notin DOMAIN f THEN [fs |-> Put(f, p, Dir), err |-> "none"]
    ELSE IF f[p].t = "dir" THEN [fs |-> f, err |-> "none"]
    ELSE [fs |-> f, err |-> "FileExistsError"]

\* open(p, 'w') followed by the write of the body; err is what the writer
\* raises after the file was opened ("none" when it completes).
write_file(f, p, body, err) ==
    IF p \in DOMAIN f /\ f[p].t = "dir" THEN [fs |-> f, err |-> "IsADirectoryError"]
    ELSE [fs |-> Put(f, p, body), err |-> err]

\* with open(p, 'r') as f: json.load(f)
read_json(f, p) ==
    IF p \notin DOMAIN f THEN Raised("FileNotFoundError")
    ELSE IF f[p].t = "dir" THEN Raised("IsADirectoryError")
    ELSE IF f[p].t = "json" /\ f[p].whole THEN Returned(f[p].doc)
    ELSE Raised("JSONDecodeError")

\* np.load(p)[key]
read_npz(f, p, key) ==
    IF p \notin DOMAIN f THEN Raised("FileNotFoundError")
    ELSE IF f[p].t = "dir" THEN Raised("IsADirectoryError")
    ELSE IF f[p].t # "npz" \/ ~f[p].whole THEN Raised("BadZipFile")
    ELSE IF f[p].key # key THEN Raised("KeyError")
    ELSE Returned(f[p].arr)

\* What a file holds between open(p, 'w') and the first byte written, and
\* what it holds when the bytes of two writers landed in it.
EmptyFile == [t |-> "empty"]
Garbled == [t |-> "garbled"]

\* A variant of open_w that opens without truncating.
open_keep(f, p) ==
    IF p \in DOMAIN f /\ f[p].t = "dir" THEN [fs |-> f, err |-> "IsADirectoryError"]
    ELSE IF p \in DOMAIN f THEN [fs |-> f, err |-> "none"]
    ELSE [fs |-> Put(f, p, EmptyFile), err |-> "none"]

\* open(p, 'w') alone: the file is created or truncated.
open_w(f, p) ==
    IF p \in DOMAIN f /\ f[p].t = "dir" THEN [fs |-> f, err |-> "IsADirectoryError"]
    ELSE [fs |-> Put(f, p, EmptyFile), err |-> "none"]

\* The entries the write of body to the open file p can leave.  The bytes
\* land at the writer's own offset: on an empty file nobody else touched
\* they are the body; on a file that holds other bytes, or that another
\* writer truncated or wrote meanwhile (raced), the outcome is undefined.
write_body(f, p, body, raced) ==
    IF raced THEN {body, Garbled}
    ELSE IF f[p] = EmptyFile THEN {body}
    ELSE {Garbled}

MkdirStep(p) == [k |-> "mkdir", p |-> p]
WriteStep(p, body, err) == [k |-> "write", p |-> p, body |-> body, err |-> err]

ExecStep(f, s) ==
    IF s.k = "mkdir" THEN mkdir(f, s.p) ELSE write_file(f, s.p, s.body, s.err)

\* A script runs its steps in order and stops at the first one that raises.
\* log is the sequence of the paths opened for writing.
RECURSIVE RunScript(_, _, _)
RunScript(f, script, log) ==
    IF script = <<>> THEN [fs |-> f, err |-> "none", log |-> log]
    ELSE LET s == Head(script)
             r == ExecStep(f, s)
             opened == s.k = "write" /\ r.err # "IsADirectoryError"
             log2 == IF opened THEN Append(log, s.p) ELSE log
         IN  IF r.err # "none" THEN [fs |-> r.fs, err |-> r.err, log |-> log2]
             ELSE RunScript(r.fs, Tail(script), log2)

----------------------------------------------------------------------------
(***************************************************************************)
(* PyshedsSerializer.save_sgrid / load_sgrid                               *)
(***************************************************************************)
sgrid_descriptor(grid) ==
    LET vf == grid.viewfinder
    IN  [type |-> "sGrid",
         affine |-> affine_list(vf.affine),
         shape |-> vf.shape,
         nodata |-> nodata_field(vf.nodata),
         crs |-> crs_str(vf.crs),
         mask_shape |-> vf.mask.shape,
         mask_dtype |-> vf.mask.dtype]

save_sgrid(grid, base) ==
    <<MkdirStep(base),
      WriteStep(base \o "_grid.json", JsonFile(sgrid_descriptor(grid)), "none"),
      WriteStep(base \o "_mask.npz", NpzFile("mask", grid.viewfinder.mask), "none")>>

load_sgrid(f, base) ==
    LET meta == read_json(f, base \o "_grid.json")
    IN  IF meta.err # "none" THEN Raised(meta.err)
        ELSE IF meta.ret.type # "sGrid" THEN Raised("ValueError")
        ELSE LET mask == read_npz(f, base \o "_mask.npz", "mask")
             IN  IF mask.err # "none" THEN Raised(mask.err)
                 ELSE LET md == meta.ret
                          nodata == IF is_nan_marker(md.nodata) THEN NaN("float")
                                    ELSE npfloat64(json_number(md.nodata))
                          vf == ViewFinder(Affine(md.affine), md.shape, nodata,
                                           mask.ret, to_proj(md.crs))
                      IN  IF vf.err # "none" THEN Raised(vf.err)
                          ELSE Returned(sGrid(vf.ret))

(***************************************************************************)
(* PyshedsSerializer.save_raster / load_raster                             *)
(***************************************************************************)
raster_type(raster) == IF isinstance_MultiRaster(raster) THEN "MultiRaster" ELSE "Raster"

raster_descriptor(raster) ==
    LET vf == raster.viewfinder
    IN  [type |-> raster_type(raster),
         data_shape |-> raster.data.shape,
         data_dtype |-> raster.data.dtype,
         affine |-> affine_list(vf.affine),
         viewfinder_shape |-> vf.shape,
         nodata |-> nodata_field(vf.nodata),
         crs |-> crs_str(vf.crs),
         mask_shape |-> vf.mask.shape,
         mask_dtype |-> vf.mask.dtype,
         metadata |-> json_encode(raster.metadata)]

\* json.dump writes the descriptor field by field: metadata that json cannot
\* encode raises TypeError after the file was opened and partly written.
raster_json_step(raster, base) ==
    IF serializable(raster.metadata)
    THEN WriteStep(base \o "_raster.json", JsonFile(raster_descriptor(raster)), "none")
    ELSE WriteStep(base \o "_raster.json", CutJsonFile, "TypeError")

save_raster(raster, base) ==
    <<MkdirStep(base),
      raster_json_step(raster, base),
      WriteStep(base \o "_data.npz", NpzFile("data", raster.data), "none"),
      WriteStep(base \o "_mask.npz", NpzFile("mask", raster.viewfinder.mask), "none")>>

\* A variant of raster_nodata that keeps the NaN marker for floating dtypes
\* only and casts it like a number for integer dtypes.
raster_nodata_nan_for_floats(md) ==
    LET data_dtype == md.data_dtype
    IN  IF issubdtype_floating(data_dtype)
        THEN IF is_nan_marker(md.nodata) THEN Returned(NaN("float"))
             ELSE IF data_dtype = "float32"
             THEN Returned(npfloat32(json_number(md.nodata)))
             ELSE Returned(npfloat64(json_number(md.nodata)))
        ELSE IF issubdtype_integer(data_dtype) /\ ~is_nan_marker(md.nodata)
        THEN IF data_dtype = "int16"
             THEN Returned(npint("int16", 16, json_number(md.nodata)))
             ELSE IF data_dtype = "int32"
             THEN Returned(npint("int32", 32, json_number(md.nodata)))
             ELSE Returned(npint("int64", 64, json_number(md.nodata)))
        ELSE Raised("ValueError")

\* The nodata of a loaded raster: lines 177-197.
raster_nodata(md) ==
    IF is_nan_marker(md.nodata) THEN Returned(NaN("float"))
    ELSE LET x == json_number(md.nodata)
             data_dtype == md.data_dtype
         IN  IF issubdtype_floating(data_dtype)
             THEN IF data_dtype = "float32" THEN Returned(npfloat32(x))
                  ELSE Returned(npfloat64(x))
             ELSE IF issubdtype_integer(data_dtype)
             THEN IF data_dtype = "int16" THEN Returned(npint("int16", 16, x))
                  ELSE IF data_dtype = "int32" THEN Returned(npint("int32", 32, x))
                  ELSE Returned(npint("int64", 64, x))
             ELSE Raised("ValueError")

\* A variant of raster_viewfinder that registers the grid on the shape of
\* the data array instead of the viewfinder shape.
raster_viewfinder_data_shape(md, nodata, mask) ==
    ViewFinder(Affine(md.affine), md.data_shape, nodata, mask, to_proj(md.crs))

\* The ViewFinder of a loaded raster: lines 199-207.
raster_viewfinder(md, nodata, mask) ==
    ViewFinder(Affine(md.affine), md.viewfinder_shape, nodata, mask, to_proj(md.crs))

\* Lines 177-213: the entity built from a descriptor and its two arrays.
raster_entity(md, data, mask) ==
    LET nodata == raster_nodata(md)
    IN  IF nodata.err # "none" THEN Raised(nodata.err)
        ELSE LET vf == raster_viewfinder(md, nodata.ret, mask)
                 metadata == json_decode(md.metadata)
             IN  IF vf.err # "none" THEN Raised(vf.err)
                 ELSE IF md.type = "MultiRaster"
                 THEN Returned(MultiRaster(data, vf.ret, metadata))
                 ELSE Returned(Raster(data, vf.ret, metadata))

\* A variant of load_raster that reads the blobs before it looks at the tag.
load_raster_blobs_first(f, base) ==
    LET meta == read_json(f, base \o "_raster.json")
        data == read_npz(f, base \o "_data.npz", "data")
        mask == read_npz(f, base \o "_mask.npz", "mask")
    IN  IF meta.err # "none" THEN Raised(meta.err)
        ELSE IF data.err # "none" THEN Raised(data.err)
        ELSE IF mask.err # "none" THEN Raised(mask.err)
        ELSE IF meta.ret.type \notin {"Raster", "MultiRaster"} THEN Raised("ValueError")
        ELSE raster_entity(meta.ret, data.ret, mask.ret)

load_raster(f, base) ==
    LET meta == read_json(f, base \o "_raster.json")
    IN  IF meta.err # "none" THEN Raised(meta.err)
        ELSE IF meta.ret.type \notin {"Raster", "MultiRaster"} THEN Raised("ValueError")
        ELSE LET data == read_npz(f, base \o "_data.npz", "data")
                 mask == read_npz(f, base \o "_mask.npz", "mask")
             IN  IF data.err # "none" THEN Raised(data.err)
                 ELSE IF mask.err # "none" THEN Raised(mask.err)
                 ELSE raster_entity(meta.ret, data.ret, mask.ret)

(***************************************************************************)
(* PyshedsSerializer.save_objects / load_objects.  A mapping of names to   *)
(* objects is a sequence of <<name, object>> pairs with distinct names, in *)
(* the order the dict yields them.                                         *)
(***************************************************************************)
entity_base(base, name) == base \o "_" \o name

\* The saves the loop of lines 236-254 performs, in order.
RECURSIVE entity_steps(_, _)
entity_steps(objects, base) ==
    IF objects = <<>> THEN <<>>
    ELSE LET name == Head(objects)[1]
             obj == Head(objects)[2]
             steps == IF isinstance_sGrid(obj)
                      THEN save_sgrid(obj, entity_base(base, name))
                      ELSE IF isinstance_Raster_or_MultiRaster(obj)
                      THEN save_raster(obj, entity_base(base, name))
                      ELSE <<>>
         IN  steps \o entity_steps(Tail(objects), base)

\* A variant of index_objects that records every name of the mapping, the
\* unsupported ones under their class name.
index_objects_all(objects) ==
    [i \in 1..Len(objects) |->
        <<objects[i][1],
          IF isinstance_sGrid(objects[i][2]) THEN "sGrid"
          ELSE IF isinstance_Raster_or_MultiRaster(objects[i][2])
          THEN raster_type(objects[i][2])
          ELSE objects[i][2].cls>>]

\* all_metadata['objects']
RECURSIVE index_objects(_)
index_objects(objects) ==
    IF objects = <<>> THEN <<>>
    ELSE LET name == Head(objects)[1]
             obj == Head(objects)[2]
             entry == IF isinstance_sGrid(obj) THEN <<<<name, "sGrid">>>>
                      ELSE IF isinstance_Raster_or_MultiRaster(obj)
                      THEN <<<<name, raster_type(obj)>>>>
                      ELSE <<>>
         IN  entry \o index_objects(Tail(objects))

\* all_metadata['saved_files']
RECURSIVE index_saved_files(_, _)
index_saved_files(objects, base) ==
    IF objects = <<>> THEN <<>>
    ELSE LET name == Head(objects)[1]
             obj == Head(objects)[2]
             b == entity_base(base, name)
             files == IF isinstance_sGrid(obj)
                      THEN <<b \o ".json", b \o "_mask.npz">>
                      ELSE IF isinstance_Raster_or_MultiRaster(obj)
                      THEN <<b \o ".json", b \o "_data.npz", b \o "_mask.npz">>
                      ELSE <<>>
         IN  files \o index_saved_files(Tail(objects), base)

index_document(objects, base) ==
    [objects |-> index_objects(objects),
     saved_files |-> index_saved_files(objects, base)]

\* A variant of save_objects that writes the index before the entities.
save_objects_index_first(objects, base) ==
    <<MkdirStep(base),
      WriteStep(base \o "_index.json", JsonFile(index_document(objects, base)),
                "none")>>
    \o entity_steps(objects, base)

\* Lines 228-258: the directory, the entities in order, the index last.
save_objects(objects, base) ==
    <<MkdirStep(base)>>
    \o entity_steps(objects, base)
    \o <<WriteStep(base \o "_index.json", JsonFile(index_document(objects, base)),
                   "none")>>

\* The loop of lines 284-288 over index['objects'].items().
RECURSIVE load_entries(_, _, _, _)
load_entries(f, base, entries, objects) ==
    IF entries = <<>> THEN Returned(objects)
    ELSE LET name == Head(entries)[1]
             obj_type == Head(entries)[2]
         IN  IF obj_type = "sGrid"
             THEN LET r == load_sgrid(f, entity_base(base, name))
                  IN  IF r.err # "none" THEN Raised(r.err)
                      ELSE load_entries(f, base, Tail(entries),
                                        Append(objects, <<name, r.ret>>))
             ELSE IF obj_type \in {"Raster", "MultiRaster"}
             THEN LET r == load_raster(f, entity_base(base, name))
                  IN  IF r.err # "none" THEN Raised(r.err)
                      ELSE load_entries(f, base, Tail(entries),
                                        Append(objects, <<name, r.ret>>))
             ELSE load_entries(f, base, Tail(entries), objects)

load_objects(f, base) ==
    LET index == read_json(f, base \o "_index.json")
    IN  IF index.err # "none" THEN Raised(index.err)
        ELSE load_entries(f, base, index.ret.objects, <<>>)

----------------------------------------------------------------------------
(***************************************************************************)
(* The inputs the model draws from.                                        *)
(***************************************************************************)
Shapes == {<<1, c>> : c \in 1..MaxSide}
Mask(shape) == Array(shape, "bool", "T")

BaseAffine == [a |-> 1, b |-> 0, c |-> 0, d |-> 0, e |-> -1, f |-> 3]
BaseCrs == [srs |-> "EPSG:4326"]

DTypes == {"int16", "int32", "int64", "float32", "float64", "uint8", "float16", "bool"}
Whitelist == {"int16", "int32", "int64", "float32", "float64"}

\* nodata values a raster of each dtype may carry (each is a value of the
\* dtype, or NaN).
NodataOf(dtype) ==
    CASE dtype = "int16" -> {Num("int16", TRUE, {15}), NaN("float")}
      [] dtype = "int32" -> {Num("int32", TRUE, {0}), NaN("float")}
      [] dtype = "int64" -> {Num("int64", TRUE, {0}), Num("int64", FALSE, {0, 53})}
      [] dtype = "float32" -> {Num("float32", TRUE, {0, 1, 2, 3, 8, 9, 10, 13})}
      [] dtype = "float64" -> {Num("float64", FALSE, {0, 30}), NaN("float")}
      [] dtype = "uint8" -> {Num("uint8", FALSE, 0..7), NaN("float")}
      [] dtype = "float16" -> {Num("float16", FALSE, {-1})}
      [] dtype = "bool" -> {Num("bool", FALSE, {})}

GridNodata == {Num("int", FALSE, {}), Num("float", TRUE, {0, 1, 2, 3, 8, 9, 10, 13}),
               NaN("float")}

NestedMeta == PyDict(<<<<"band", PyInt(1)>>,
                       <<"tags", PyList(<<PyStr("dem"), PyDict(<<<<"k", PyInt(2)>>>>)>>)>>>>)
OpaqueMeta == PyDict(<<<<"band", PyInt(1)>>, <<"tags", PyOpaque>>>>)
Metas == {NestedMeta, OpaqueMeta}

View(shape, nodata) ==
    [affine |-> BaseAffine, shape |-> shape, nodata |-> nodata,
     mask |-> Mask(shape), crs |-> BaseCrs]

MakeRaster(cls, dtype, nodata, shape, data_shape, meta) ==
    IF cls = "MultiRaster"
    THEN MultiRaster(Array(data_shape, dtype, "x"), View(shape, nodata), meta)
    ELSE Raster(Array(data_shape, dtype, "x"), View(shape, nodata), meta)

Grids == {sGrid(View(shape, nodata)) : shape \in Shapes, nodata \in GridNodata}

Rasters ==
    UNION {{MakeRaster("Raster", dtype, nodata, <<1, 1>>, <<1, 1>>, NestedMeta) :
                nodata \in NodataOf(dtype)} : dtype \in DTypes}
    \cup UNION {{MakeRaster("MultiRaster", dtype, nodata, <<1, 1>>, <<1, 1>>, NestedMeta) :
                nodata \in NodataOf(dtype)} : dtype \in {"int16", "uint8", "float64"}}
    \cup {MakeRaster("Raster", "int32", Num("int32", TRUE, {0}), shape, data_shape,
                      NestedMeta) : shape \in Shapes, data_shape \in Shapes}
    \cup {MakeRaster("Raster", "int32", Num("int32", TRUE, {0}), <<1, 1>>, <<1, 1>>, meta) :
              meta \in Metas}

Base == "B"
EmptyFs == [q \in {} |-> Dir]

NoCall == [n |-> 0, op |-> "none", base |-> "", arg |-> None, err |-> "none",
           ret |-> None, log |-> <<>>, fresh |-> FALSE, saved |-> None]

\* The record of a save: the storage it left, what it raised, what it opened.
SaveCall(op, base, arg, script) ==
    LET r == RunScript(fs, script, <<>>)
    IN  /\ last.n < MaxSteps
        /\ fs' = r.fs
        /\ last' = [n |-> last.n + 1, op |-> op, base |-> base, arg |-> arg,
                    err |-> r.err, ret |-> None, log |-> r.log, fresh |-> FALSE,
                    saved |-> None]

\* The record of a load; fresh says that the matching save completed just
\* before it on the same base path, and saved is what that save was given.
LoadCall(op, save_op, base, r) ==
    LET fresh == last.op = save_op /\ last.err = "none" /\ last.base = base
    IN  /\ last.n < MaxSteps
        /\ fs' = fs
        /\ last' = [n |-> last.n + 1, op |-> op, base |-> base, arg |-> None,
                    err |-> r.err, ret |-> r.ret, log |-> <<>>, fresh |-> fresh,
                    saved |-> IF fresh THEN last.arg ELSE None]

SaveSGrid == \E grid \in Grids :
    SaveCall("save_sgrid", Base, grid, save_sgrid(grid, Base)) /\ UNCHANGED run

LoadSGrid ==
    LoadCall("load_sgrid", "save_sgrid", Base, load_sgrid(fs, Base)) /\ UNCHANGED run

SaveRaster == \E raster \in Rasters :
    SaveCall("save_raster", Base, raster, save_raster(raster, Base)) /\ UNCHANGED run

LoadRaster ==
    LoadCall("load_raster", "save_raster", Base, load_raster(fs, Base)) /\ UNCHANGED run

(***************************************************************************)
(* The storage is shared with the rest of the world: a descriptor at an    *)
(* archive path may have been written by something else, with any kind tag.*)
(***************************************************************************)
Tags == {"sGrid", "Raster", "MultiRaster", "Dataset"}

ForeignRasters ==
    {MakeRaster("Raster", dtype, nodata, <<1, 1>>, <<1, 1>>, NestedMeta) :
         dtype \in {"int32"}, nodata \in NodataOf("int32")}
ForeignGrids == {sGrid(View(<<1, 1>>, NaN("float")))}

ForeignDescriptor ==
    /\ last.n < MaxSteps
    /\ \/ \E r \in ForeignRasters, tag \in Tags :
             fs' = Put(fs, Base \o "_raster.json",
                       JsonFile([raster_descriptor(r) EXCEPT !.type = tag]))
       \/ \E g \in ForeignGrids, tag \in Tags :
             fs' = Put(fs, Base \o "_grid.json",
                       JsonFile([sgrid_descriptor(g) EXCEPT !.type = tag]))
    /\ last' = [NoCall EXCEPT !.op = "foreign", !.n = last.n + 1]
    /\ UNCHANGED run

InitCodec ==
    /\ fs \in {EmptyFs, Put(EmptyFs, Base, OtherFile)}
    /\ last = NoCall
    /\ run = <<>>

NextCodec ==
    \/ SaveSGrid
    \/ LoadSGrid
    \/ SaveRaster
    \/ LoadRaster
    \/ ForeignDescriptor

SpecCodec == InitCodec /\ [][NextCodec]_vars

----------------------------------------------------------------------------
(***************************************************************************)
(* The multi-object archive: save_objects and load_objects on one base     *)
(* path, over mappings of the names to a pool of objects.                  *)
(***************************************************************************)
Names == {"a", "b"}

PlainGrid == sGrid(View(<<1, MaxSide>>, NaN("float")))
PlainRaster ==
    MakeRaster("Raster", "int32", Num("int32", TRUE, {0}), <<1, 1>>, <<1, 1>>, NestedMeta)
BoolMultiRaster ==
    MakeRaster("MultiRaster", "bool", Num("bool", FALSE, {}), <<1, 1>>, <<1, 1>>, NestedMeta)
OpaqueRaster ==
    MakeRaster("Raster", "int32", Num("int32", TRUE, {0}), <<1, 1>>, <<1, 1>>, OpaqueMeta)
Unsupported == [cls |-> "ndarray"]

ObjectPool == {PlainGrid, PlainRaster, BoolMultiRaster, OpaqueRaster, Unsupported}

\* The mappings of names to objects of the pool: a dict yields its entries
\* in insertion order, and the names are taken in one order.
NameOrder == <<"a", "b">>
Mappings ==
    {<<>>}
    \cup {<<<<n, o>>>> : n \in Names, o \in ObjectPool}
    \cup {<<<<NameOrder[1], o1>>, <<NameOrder[2], o2>>>> :
            o1 \in ObjectPool, o2 \in ObjectPool}

SaveObjects == \E objects \in Mappings :
    SaveCall("save_objects", Base, objects, save_objects(objects, Base)) /\ UNCHANGED run

LoadObjects ==
    LoadCall("load_objects", "save_objects", Base, load_objects(fs, Base))
    /\ UNCHANGED run

\* An index written by something else may name kinds this serializer does
\* not know.
ForeignIndexes ==
    {[objects |-> <<<<"a", "Dataset">>>>, saved_files |-> <<>>]}
    \cup {[objects |-> <<<<"a", "Dataset">>, <<"b", tag>>>>, saved_files |-> <<>>] :
            tag \in Tags}

ForeignIndex ==
    /\ last.n < MaxSteps
    /\ \E doc \in ForeignIndexes : fs' = Put(fs, Base \o "_index.json", JsonFile(doc))
    /\ last' = [NoCall EXCEPT !.op = "foreign", !.n = last.n + 1]
    /\ UNCHANGED run

InitArchive ==
    /\ fs = EmptyFs
    /\ last = NoCall
    /\ run = <<>>

NextArchive ==
    \/ SaveObjects
    \/ LoadObjects
    \/ ForeignIndex

SpecArchive == InitArchive /\ [][NextArchive]_vars

\* One caller alone on the storage: nothing else writes to it.
NextSolo ==
    \/ SaveObjects
    \/ LoadObjects

SpecSolo == InitArchive /\ [][NextSolo]_vars

----------------------------------------------------------------------------
(***************************************************************************)
(* Two callers on one base path, no locking (SpecConc).  Each caller runs  *)
(* the steps of its call in order; the steps of the two interleave freely, *)
(* and a write is two steps: the open that truncates and the write of the  *)
(* body.                                                                   *)
(***************************************************************************)
Callers == {1, 2}
Other(c) == 3 - c

OtherRaster ==
    MakeRaster("MultiRaster", "float64", NaN("float"), <<1, MaxSide>>, <<2, MaxSide>>,
               NestedMeta)

ConcCalls ==
    {[op |-> "save_raster", arg |-> PlainRaster],
     [op |-> "save_raster", arg |-> OtherRaster],
     [op |-> "save_objects", arg |-> <<<<"a", PlainRaster>>>>],
     [op |-> "save_objects", arg |-> <<<<"b", PlainGrid>>>>]}

ScriptOf(call) ==
    IF call.op = "save_raster" THEN save_raster(call.arg, Base)
    ELSE save_objects(call.arg, Base)

Idle == [pc |-> "idle", call |-> None, todo |-> <<>>, open |-> FALSE, raced |-> FALSE,
         after |-> FALSE, err |-> "none"]

\* The caller's record after its head step completed, or raised err.
Advance(r, err) ==
    [r EXCEPT !.todo = Tail(r.todo), !.open = FALSE, !.raced = FALSE, !.err = err,
              !.pc = IF err # "none" \/ Tail(r.todo) = <<>> THEN "done" ELSE "running"]

\* The other caller's record after this caller touched path p: its open
\* file was raced if it is p.
Touched(r, p) ==
    IF r.pc = "running" /\ r.open /\ Head(r.todo).p = p THEN [r EXCEPT !.raced = TRUE]
    ELSE r

\* A caller enters save_raster or save_objects.
Begin(c) ==
    /\ run[c].pc = "idle"
    /\ \E call \in ConcCalls :
          run' = [run EXCEPT ![c] = [Idle EXCEPT !.pc = "running", !.call = call,
                                                 !.todo = ScriptOf(call),
                                                 !.after = run[Other(c)].pc = "done"]]
    /\ UNCHANGED <<fs, last>>

MakeDir(c) ==
    /\ run[c].pc = "running"
    /\ Head(run[c].todo).k = "mkdir"
    /\ LET r == mkdir(fs, Head(run[c].todo).p)
       IN  /\ fs' = r.fs
           /\ run' = [run EXCEPT ![c] = Advance(run[c], r.err)]
    /\ UNCHANGED last

OpenFile(c) ==
    /\ run[c].pc = "running"
    /\ Head(run[c].todo).k = "write"
    /\ ~run[c].open
    /\ LET p == Head(run[c].todo).p
           o == open_w(fs, p)
       IN  /\ fs' = o.fs
           /\ run' = [run EXCEPT ![c] = IF o.err # "none" THEN Advance(run[c], o.err)
                                        ELSE [run[c] EXCEPT !.open = TRUE],
                                 ![Other(c)] = Touched(run[Other(c)], p)]
    /\ UNCHANGED last

WriteBody(c) ==
    /\ run[c].pc = "running"
    /\ Head(run[c].todo).k = "write"
    /\ run[c].open
    /\ LET s == Head(run[c].todo)
       IN  /\ \E e \in write_body(fs, s.p, s.body, run[c].raced) : fs' = Put(fs, s.p, e)
           /\ run' = [run EXCEPT ![c] = Advance(run[c], s.err),
                                 ![Other(c)] = Touched(run[Other(c)], s.p)]
    /\ UNCHANGED last

InitConc ==
    /\ fs = EmptyFs
    /\ last = NoCall
    /\ run = [c \in Callers |-> Idle]

NextConc ==
    \/ \E c \in Callers : Begin(c)
    \/ \E c \in Callers : MakeDir(c)
    \/ \E c \in Callers : OpenFile(c)
    \/ \E c \in Callers : WriteBody(c)

SpecConc == InitConc /\ [][NextConc]_vars

----------------------------------------------------------------------------
(***************************************************************************)
(* Properties of the entity codec (SpecCodec).                             *)
(***************************************************************************)
RasterJson == Base \o "_raster.json"
GridJson == Base \o "_grid.json"
DataNpz == Base \o "_data.npz"
MaskNpz == Base \o "_mask.npz"

WholeJsonAt(p) == p \in DOMAIN fs /\ fs[p].t = "json" /\ fs[p].whole
BlobAt(p) == p \in DOMAIN fs /\ fs[p].t = "npz"

\* last is a load that directly follows the completed save of last.saved on
\* the same base path.
LoadedBack(op) == last.op = op /\ last.fresh

\* C1: load_raster(B) after save_raster(r, B), for r of a whitelisted dtype
\* with a nodata that is not NaN, returns an entity of r's variant with r's
\* data, viewfinder affine, shape, crs and mask, r's metadata, and a nodata
\* equal to r's and typed as r's data dtype.
C1_RoundTrip ==
    (/\ LoadedBack("load_raster")
     /\ last.saved.data.dtype \in Whitelist
     /\ ~isnan(last.saved.viewfinder.nodata))
    => /\ last.err = "none"
       /\ last.ret.cls = last.saved.cls
       /\ last.ret.data = last.saved.data
       /\ last.ret.viewfinder.affine = last.saved.viewfinder.affine
       /\ last.ret.viewfinder.shape = last.saved.viewfinder.shape
       /\ last.ret.viewfinder.crs = last.saved.viewfinder.crs
       /\ last.ret.viewfinder.mask = last.saved.viewfinder.mask
       /\ last.ret.metadata = last.saved.metadata
       /\ SameValue(last.ret.viewfinder.nodata, last.saved.viewfinder.nodata)
       /\ last.ret.viewfinder.nodata.ty = last.saved.data.dtype

\* C2: a completed save of an entity stores the nodata field as the string
\* "nan" exactly when the entity's nodata is NaN, and the load that follows
\* the save of an entity with a NaN nodata returns a NaN nodata, whatever
\* the data dtype.
C2_NanSentinel ==
    /\ (last.op = "save_sgrid" /\ last.err = "none")
         => (is_nan_marker(fs[GridJson].doc.nodata)
                <=> isnan(last.arg.viewfinder.nodata))
    /\ (last.op = "save_raster" /\ last.err = "none")
         => (is_nan_marker(fs[RasterJson].doc.nodata)
                <=> isnan(last.arg.viewfinder.nodata))
    /\ ((LoadedBack("load_sgrid") \/ LoadedBack("load_raster"))
          /\ isnan(last.saved.viewfinder.nodata))
         => (last.err = "none" /\ isnan(last.ret.viewfinder.nodata))

C2_Witness ==
    /\ LoadedBack("load_raster")
    /\ last.saved.cls = "MultiRaster"
    /\ last.saved.data.dtype = "uint8"
    /\ isnan(last.saved.viewfinder.nodata)
    /\ is_nan_marker(fs[RasterJson].doc.nodata)
    /\ last.err = "none"
    /\ isnan(last.ret.viewfinder.nodata)

\* C3: load_raster raises the format error (ValueError) and returns nothing
\* when the descriptor's kind tag is neither 'Raster' nor 'MultiRaster', and
\* load_sgrid when it is not 'sGrid', whether or not the blobs are there.
C3_BadTagRejected ==
    /\ (last.op = "load_raster" /\ WholeJsonAt(RasterJson)
          /\ fs[RasterJson].doc.type \notin {"Raster", "MultiRaster"})
         => (last.err = "ValueError" /\ last.ret = None)
    /\ (last.op = "load_sgrid" /\ WholeJsonAt(GridJson)
          /\ fs[GridJson].doc.type # "sGrid")
         => (last.err = "ValueError" /\ last.ret = None)

C3_Witness ==
    /\ last.op = "load_raster"
    /\ WholeJsonAt(RasterJson)
    /\ fs[RasterJson].doc.type = "sGrid"
    /\ DataNpz \notin DOMAIN fs
    /\ MaskNpz \notin DOMAIN fs
    /\ last.err = "ValueError"

\* C4: load_raster of a descriptor whose nodata is a number and whose
\* data_dtype is outside the whitelist returns no entity, and raises the
\* unsupported-type error (ValueError) once tag and blobs were read.
C4_UnlistedDtypeRejected ==
    (/\ last.op = "load_raster"
     /\ WholeJsonAt(RasterJson)
     /\ ~is_nan_marker(fs[RasterJson].doc.nodata)
     /\ fs[RasterJson].doc.data_dtype \notin Whitelist)
    => /\ last.err # "none"
       /\ (/\ fs[RasterJson].doc.type \in {"Raster", "MultiRaster"}
           /\ BlobAt(DataNpz) /\ BlobAt(MaskNpz))
            => last.err = "ValueError"

Layout(call) ==
    CASE call.op = "save_sgrid" -> {call.base \o "_grid.json", call.base \o "_mask.npz"}
      [] call.op = "save_raster" ->
            {call.base \o "_raster.json", call.base \o "_data.npz",
             call.base \o "_mask.npz"}
      [] call.op = "save_objects" ->
            {call.base \o "_index.json"}
            \cup {entity_base(call.base, call.arg[i][1]) \o suffix :
                    i \in 1..Len(call.arg),
                    suffix \in {"_grid.json", "_raster.json", "_data.npz", "_mask.npz"}}

\* C10: a save creates or overwrites only the files of the archive layout of
\* its base path and leaves every other storage entry as it was; it creates
\* no entry at the base path itself and does not fail because one exists.
C10_SaveFrame ==
    [][last'.op \in {"save_sgrid", "save_raster", "save_objects"}
         => /\ \A p \in (DOMAIN fs \cup DOMAIN fs') \ Layout(last') :
                  p \in DOMAIN fs /\ p \in DOMAIN fs' /\ fs'[p] = fs[p]
            /\ last'.base \in DOMAIN fs' => last'.base \in DOMAIN fs
            /\ last'.err # "FileExistsError"]_vars

----------------------------------------------------------------------------
(***************************************************************************)
(* Properties of the multi-object archive (SpecArchive, SpecSolo).         *)
(***************************************************************************)
IndexJson == Base \o "_index.json"

SupportedKinds == {"sGrid", "Raster", "MultiRaster"}
Supported(objects) == SelectSeq(objects, LAMBDA e : e[2].cls \in SupportedKinds)
Recognized(entries) == SelectSeq(entries, LAMBDA e : e[2] \in SupportedKinds)
NamesOf(pairs) == [i \in 1..Len(pairs) |-> pairs[i][1]]
KindsOf(objects) == [i \in 1..Len(objects) |-> <<objects[i][1], objects[i][2].cls>>]
Range(seq) == {seq[i] : i \in 1..Len(seq)}

\* load_raster accepts the raster: its nodata is NaN, or its data dtype is an
\* integer or a floating dtype.
Castable(obj) ==
    obj.cls = "sGrid"
    \/ isnan(obj.viewfinder.nodata)
    \/ obj.data.dtype \in FloatingDtypes \cup IntegerDtypes

\* The entity an index entry names can be loaded from the storage.
EntryLoads(entry) ==
    IF entry[2] = "sGrid"
    THEN load_sgrid(fs, entity_base(Base, entry[1])).err = "none"
    ELSE load_raster(fs, entity_base(Base, entry[1])).err = "none"

\* save_objects treats the unsupported objects of a mapping as if they were
\* not there: same storage, same outcome.
C6_UnsupportedIgnored ==
    last'.op = "save_objects"
    => LET r == RunScript(fs, save_objects(Supported(last'.arg), last'.base), <<>>)
       IN  fs' = r.fs /\ last'.err = r.err

\* A completed save_objects records exactly the supported names, each with
\* its own kind tag.
C6_IndexExact ==
    (last.op = "save_objects" /\ last.err = "none")
    => fs[IndexJson].doc.objects = KindsOf(Supported(last.arg))

\* load_objects skips the index entries of an unrecognized kind: they are
\* not in the result and they raise nothing.
C6_UnknownSkipped ==
    (last.op = "load_objects" /\ WholeJsonAt(IndexJson))
    => LET known == Recognized(fs[IndexJson].doc.objects)
       IN  /\ last.err = "none" => NamesOf(last.ret) = NamesOf(known)
           /\ (\A i \in 1..Len(known) : EntryLoads(known[i])) => last.err = "none"

\* C6 as claimed: for every mapping, save_objects ignores the unsupported
\* objects and indexes exactly the supported names with their kind tags; the
\* load_objects that follows returns a mapping with exactly those names; and
\* load_objects skips unrecognized index entries without error.
C6_ArchiveRoundTrip ==
    /\ [](/\ C6_IndexExact
          /\ C6_UnknownSkipped
          /\ LoadedBack("load_objects")
               => /\ last.err = "none"
                  /\ NamesOf(last.ret) = NamesOf(Supported(last.saved)))
    /\ [][C6_UnsupportedIgnored]_vars

\* C6 amended: as above, but the load_objects that follows returns the
\* mapping only when every saved raster has a NaN nodata or an integer or
\* floating data dtype; for any other dtype it raises ValueError.
C6_ArchiveRoundTripCastable ==
    /\ [](/\ C6_IndexExact
          /\ C6_UnknownSkipped
          /\ LoadedBack("load_objects")
               => LET saved == Supported(last.saved)
                  IN  IF \A i \in 1..Len(saved) : Castable(saved[i][2])
                      THEN /\ last.err = "none"
                           /\ NamesOf(last.ret) = NamesOf(saved)
                      ELSE last.err = "ValueError")
    /\ [][C6_UnsupportedIgnored]_vars

C6_Witness ==
    /\ LoadedBack("load_objects")
    /\ last.saved = <<<<"a", Unsupported>>, <<"b", PlainRaster>>>>
    /\ fs[IndexJson].doc.objects = <<<<"b", "Raster">>>>
    /\ last.err = "none"
    /\ NamesOf(last.ret) = <<"b">>

\* The files an index entry stands for.
EntryFiles(entry) ==
    LET b == entity_base(Base, entry[1])
    IN  IF entry[2] = "sGrid" THEN {b \o "_grid.json", b \o "_mask.npz"}
        ELSE {b \o "_raster.json", b \o "_data.npz", b \o "_mask.npz"}

IndexedFiles ==
    UNION {EntryFiles(fs[IndexJson].doc.objects[i]) :
             i \in 1..Len(fs[IndexJson].doc.objects)}

\* In a save_objects call the index is opened after every other file of the
\* call, and not at all when the call raises.
C7_IndexLast ==
    last.op = "save_objects"
    => /\ \A i \in 1..Len(last.log) : last.log[i] = IndexJson => i = Len(last.log)
       /\ last.err # "none" => IndexJson \notin Range(last.log)
       /\ last.err = "none" => (last.log # <<>> /\ last.log[Len(last.log)] = IndexJson)

C8_SavedFilesExact ==
    (last.op = "save_objects" /\ last.err = "none")
    => LET listed == Range(fs[IndexJson].doc.saved_files)
       IN  /\ listed \subseteq Range(last.log)
           /\ Range(last.log) \ {IndexJson} \subseteq listed

----------------------------------------------------------------------------
(***************************************************************************)
(* Properties of two concurrent callers (SpecConc).                        *)
(***************************************************************************)
BothDone == \A c \in Callers : run[c].pc = "done" /\ run[c].err = "none"
Overlapped == \A c \in Callers : ~run[c].after

\* What the call of caller c leaves on an empty storage when it runs alone.
Solo(c) == RunScript(EmptyFs, ScriptOf(run[c].call), <<>>).fs

\* Storage g laid over storage f.
Overlay(f, g) ==
    [p \in DOMAIN f \cup DOMAIN g |-> IF p \in DOMAIN g THEN g[p] ELSE f[p]]

\* C9 as claimed: when the two calls overlap and both complete, the files on
\* storage are entirely the output of one of the two callers.
C9_LastWriterWins ==
    (BothDone /\ Overlapped) => \E c \in Callers : fs = Solo(c)

\* C9 amended: when both calls complete, the storage holds exactly the paths
\* the two callers write.  If the calls did not overlap, each path holds what
\* the later of its writers wrote, so the archive is the later caller's
\* output laid over the earlier one's.  If they overlapped, each path holds
\* the whole content one of the two callers wrote to it -- different paths
\* may come from different callers -- or, for a path both write, a garbled
\* content.
C9_PerFileWriterWins ==
    BothDone
    => /\ DOMAIN fs = DOMAIN Solo(1) \cup DOMAIN Solo(2)
       /\ \A c \in Callers :
             run[c].after => fs = Overlay(Solo(Other(c)), Solo(c))
       /\ \A p \in DOMAIN fs :
             \/ \E c \in Callers : p \in DOMAIN Solo(c) /\ fs[p] = Solo(c)[p]
             \/ /\ fs[p] = Garbled
                /\ Overlapped
                /\ p \in DOMAIN Solo(1) \cap DOMAIN Solo(2)

\* Both calls completed, overlapping, and left the descriptor of one caller
\* beside the data blob of the other.
C9_Witness ==
    /\ BothDone
    /\ Overlapped
    /\ run[1].call = [op |-> "save_raster", arg |-> PlainRaster]
    /\ run[2].call = [op |-> "save_raster", arg |-> OtherRaster]
    /\ fs[RasterJson] = Solo(1)[RasterJson]
    /\ fs[DataNpz] = Solo(2)[DataNpz]
    /\ fs[MaskNpz] = Solo(2)[MaskNpz]

====
